---- MODULE Spec2Model ----
(***************************************************************************)
(* The land decision matrix (decision_matrix_with_gsheets.py): a Streamlit *)
(* script that is run top to bottom on every user interaction (a render).  *)
(* A render loads three worksheets, draws the widgets, uploads the selected *)
(* images, scores every option, overwrites five worksheets and shows the   *)
(* ranking.                                                                *)
(*                                                                         *)
(* Numbers: every real number is held in hundredths (1.0 is 100), so a     *)
(* weight step of 0.1 is 10, the mean of two integer ratings is exact, and *)
(* round(x, 2) is the identity.                                            *)
(***************************************************************************)
EXTENDS Integers, Sequences, FiniteSets, TLC

\* ------------------------------------------------------------------ bounds
\* the number input's max_value is 10 in the program; the model stops here
MaxColCount == 3
\* how many criterion names the user can type
MaxCrit == 3
\* how many file names the user can select
MaxFiles == 1
\* how many files may be selected over all uploaders at once
MaxSelected == 1
\* how many weights, labels and comment texts the user can type
NumWeightInputs == 2
NumLabelInputs == 3
NumCommentInputs == 1
\* renders (the first one of a session, then one per interaction) after which
\* the model stops
MaxRenders == 3
\* failures of the environment (remote calls, file deletions) over a behaviour
MaxFaults == 1
\* renders that follow the last failure
MaxAfterFault == 1

\* ------------------------------------------------------- program constants
max_retries == 5
initial_delay == 10
DefaultColCount == 3
DefaultRating == 3
DefaultWeight == 100
MinRating == 1
MaxRating == 5

persons == <<"Maya", "Mike">>

\* f"Option {chr(65+i)}" for i = 0..9
KeyNames == <<"Option A", "Option B", "Option C", "Option D", "Option E",
              "Option F", "Option G", "Option H", "Option I", "Option J">>
OptionKey(i) == KeyNames[i + 1]

CritPool == <<"c1", "c2", "2", "c4">>
CritInputs == {CritPool[i] : i \in 1..MaxCrit} \cup {""}
FilePool == <<"f1.png", "f2.png", "f3.png">>
Files == {FilePool[i] : i \in 1..MaxFiles}
WeightPool == <<200, 0, 50, 500, 10>>
WeightInputs == {WeightPool[i] : i \in 1..NumWeightInputs}
LabelPool == <<"Option A", "Lot 7", "007", "Lot 9">>
LabelInputs == {LabelPool[i] : i \in 1..NumLabelInputs}
CommentPool == <<"good", "bad", "far">>
CommentInputs == {CommentPool[i] : i \in 1..NumCommentInputs} \cup {""}

Tables == <<"options", "setup", "comments", "Overview", "Full Scores">>
WidgetIdentities == {"params", "key"}

\* ----------------------------------------------------------------- helpers
Range(s) == {s[i] : i \in 1..Len(s)}
Min(a, b) == IF a < b THEN a ELSE b

\* a Python dict, in insertion order: a sequence of [k, v]
DictHas(d, k) == \E i \in 1..Len(d) : d[i].k = k
DictGet(d, k) == d[CHOOSE i \in 1..Len(d) : d[i].k = k].v
DictSet(d, k, v) ==
    IF DictHas(d, k)
    THEN [i \in 1..Len(d) |-> IF d[i].k = k THEN [k |-> k, v |-> v] ELSE d[i]]
    ELSE Append(d, [k |-> k, v |-> v])
DictKeys(d) == [i \in 1..Len(d) |-> d[i].k]
DictValues(d) == [i \in 1..Len(d) |-> d[i].v]

\* dict.get(k, default) of a function with a finite domain
Get(f, k, default) == IF k \in DOMAIN f THEN f[k] ELSE default
Put(f, k, v) == [x \in (DOMAIN f) \cup {k} |-> IF x = k THEN v ELSE f[x]]
NoMap == [x \in {} |-> 0]

RECURSIVE SumSeq(_)
SumSeq(s) == IF s = <<>> THEN 0 ELSE Head(s) + SumSeq(Tail(s))

RECURSIVE Pow2(_)
Pow2(n) == IF n = 0 THEN 1 ELSE 2 * Pow2(n - 1)

\* sorted(list(set(urls))): the distinct elements, ascending
RECURSIVE SortedSet(_)
SortedSet(S) ==
    IF S = {} THEN <<>>
    ELSE LET m == CHOOSE x \in S : \A y \in S : x <= y
         IN <<m>> \o SortedSet(S \ {m})

\* a worksheet: the header row and the data rows; a cleared sheet has neither
EmptySheet == [header |-> <<>>, rows |-> <<>>]
Sheet(header, rows) == [header |-> header, rows |-> rows]

Notice(level, about, arg) == [level |-> level, about |-> about, arg |-> arg]

\* ------------------------------------------------------- Python values
\* A str is held as its text and the ints that the texts of the pools can
\* turn into as "int(2)" and "int(7)". A worksheet cell holds the value that
\* was written to it.
\* gspread's numericise, which get_all_records() (lines 76, 87) applies to
\* every cell: int(value), else float(value), else the value itself.
numericise(value) ==
    CASE value = "2" -> "int(2)"
      [] value \in {"7", "007"} -> "int(7)"
      [] OTHER -> value
\* str(value), as an f-string, st.text_input(value=...) and
\* get_all_values() (line 120) render a value
str(value) ==
    CASE value = "int(2)" -> "2"
      [] value = "int(7)" -> "7"
      [] OTHER -> value

\* sep.join(parts), held as the separator and the parts (no part of the
\* program's joined strings contains the separator), and s.split(sep)
JoinStr(sep, parts) == [sep |-> sep, parts |-> parts]
SplitStr(s, sep) == IF s.sep = sep /\ s.parts # <<>> THEN s.parts ELSE <<s>>
\* bool(s) of a joined string: "" is falsy
Truthy(s) == s.parts # <<>>
UrlSeparator == ", "
NoUrls == JoinStr(UrlSeparator, <<>>)

\* ------------------------------------------------------------ the widgets
\* A widget keeps the value the user gave it for as long as it is the same
\* widget. Streamlit identifies a widget by its key alone ("key") or by its
\* key and its parameters, the default value included ("params"), depending
\* on the release; a widget without a key is always identified by its
\* parameters. ws maps a widget key to [d: the default it was drawn with,
\* v: its value].
WidgetValue(ws, k, default, identity) ==
    IF k \in DOMAIN ws /\ (identity = "key" \/ ws[k].d = default)
    THEN ws[k].v
    ELSE default
Drawn(ws, k, default, identity) ==
    [d |-> default, v |-> WidgetValue(ws, k, default, identity)]

\* --------------------------------------------------------- upload_to_drive
\* fault: the first call of the try block that raises ("none": no call does);
\* delFails: how many of the os.remove attempts raise OSError, counted from
\* the first. id is the id Drive gives the file; the link is the url
\* "https://drive.google.com/uc?id=<id>", held as id (0: None).
UploadFaults == {"none", "tempfile", "write", "create", "permission"}

\* the cleanup at the end of the try block instead of in finally
upload_to_drive_cleanup_in_try(file, fault, delFails, id) ==
    LET tmp_path == fault # "tempfile"
        cleans == fault = "none"
        tries == IF cleans THEN Min(delFails + 1, max_retries) ELSE 0
        failed == IF cleans THEN Min(delFails, max_retries) ELSE 0
    IN  [link |-> IF fault = "none" THEN id ELSE 0,
         stored |-> fault \in {"none", "permission"},
         name |-> file,
         notice |-> <<>>,
         tmp_created |-> tmp_path,
         tmp_exists |-> tmp_path /\ (~cleans \/ delFails >= max_retries),
         attempts |-> tries,
         delays |-> [k \in 1..failed |-> initial_delay * Pow2(k - 1)]]

\* the wait grows by initial_delay per failed attempt instead of doubling
upload_to_drive_linear_backoff(file, fault, delFails, id) ==
    LET tmp_path == fault # "tempfile"
        tries == IF tmp_path THEN Min(delFails + 1, max_retries) ELSE 0
        failed == IF tmp_path THEN Min(delFails, max_retries) ELSE 0
    IN  [link |-> IF fault = "none" THEN id ELSE 0,
         stored |-> fault \in {"none", "permission"},
         name |-> file,
         notice |-> <<>>,
         tmp_created |-> tmp_path,
         tmp_exists |-> tmp_path /\ delFails >= max_retries,
         attempts |-> tries,
         delays |-> [k \in 1..failed |-> initial_delay * k]]

upload_to_drive(file, fault, delFails, id) ==
    LET tmp_path == fault # "tempfile"
        stored == fault \in {"none", "permission"}
        tries == IF tmp_path THEN Min(delFails + 1, max_retries) ELSE 0
        failed == IF tmp_path THEN Min(delFails, max_retries) ELSE 0
    IN  [link |-> IF fault = "none" THEN id ELSE 0,
         stored |-> stored,
         name |-> file,
         notice |-> <<>>,
         tmp_created |-> tmp_path,
         tmp_exists |-> tmp_path /\ delFails >= max_retries,
         attempts |-> tries,
         delays |-> [k \in 1..failed |-> initial_delay * Pow2(k - 1)]]
\* --------------------------------------------------- Initial Load from Sheets
HasColumns(sheet, cols) ==
    \* pd.DataFrame(get_all_records()): no data row, no column
    sheet.rows # <<>> /\ cols \subseteq Range(sheet.header)

RECURSIVE LoadWeights(_, _)
LoadWeights(rows, weight) ==
    IF rows = <<>> THEN weight
    \* line 80: st.session_state[f"weight_{row['Criteria']}"] = float(row["Weight"])
    ELSE LoadWeights(Tail(rows),
                     Put(weight, str(numericise(Head(rows).Criteria)),
                         Head(rows).Weight))

\* lines 74-83; ss is st.session_state
LoadSetup(ss, sheet, faults) ==
    IF <<"read", "setup">> \in faults
    THEN [ss |-> ss, notices |-> <<Notice("warning", "load setup", "")>>]
    ELSE IF HasColumns(sheet, {"Criteria", "Weight"})
    THEN [ss |-> [ss EXCEPT
                    !.criteria_list =
                        [has |-> TRUE,
                         v |-> [i \in 1..Len(sheet.rows) |->
                                   numericise(sheet.rows[i].Criteria)]],
                    !.weight = LoadWeights(sheet.rows, ss.weight)],
          notices |-> <<>>]
    ELSE [ss |-> ss, notices |-> <<>>]

RECURSIVE ZipDict(_, _, _)
ZipDict(rows, field, d) ==
    IF rows = <<>> THEN d
    ELSE ZipDict(Tail(rows), field,
                 DictSet(d, numericise(Head(rows).Key),
                         IF field = "Label" THEN numericise(Head(rows)[field])
                         ELSE Head(rows)[field]))

\* lines 85-95. The "Image URLs" cell is the ", "-joined string of the urls,
\* which numericise leaves as it is.
LoadOptions(sheet, faults) ==
    IF <<"read", "options">> \in faults \/ ~HasColumns(sheet, {"Key", "Label"})
    THEN [option_labels |-> <<>>, existing_urls |-> <<>>, options |-> <<>>,
          notices |-> <<Notice("warning", "load options", "")>>]
    ELSE LET labels == ZipDict(sheet.rows, "Label", <<>>)
         IN  [option_labels |-> labels,
              existing_urls |-> ZipDict(sheet.rows, "URLs", <<>>),
              options |-> DictKeys(labels),
              notices |-> <<>>]

\* lines 97-105. W: the widgets of the previous run, N: those drawn so far.
ColCountDefault(options) ==
    IF Len(options) = 0 THEN DefaultColCount ELSE Len(options)

RECURSIVE LabelLoop(_, _, _, _, _, _)
RECURSIVE LabelDrawn(_, _, _, _, _, _, _)
LabelLoop(i, col_count, option_labels, W, N, identity) ==
    IF i >= col_count THEN [option_labels |-> option_labels, N |-> N]
    ELSE LabelDrawn(i, col_count,
                    IF DictHas(option_labels, OptionKey(i)) THEN option_labels
                    ELSE DictSet(option_labels, OptionKey(i), OptionKey(i)),
                    W, N, identity,
                    Drawn(W.label, OptionKey(i),
                          IF DictHas(option_labels, OptionKey(i))
                          THEN str(DictGet(option_labels, OptionKey(i)))
                          ELSE OptionKey(i),
                          identity))
LabelDrawn(i, col_count, option_labels, W, N, identity, w) ==
    LabelLoop(i + 1, col_count, DictSet(option_labels, OptionKey(i), w.v), W,
              [N EXCEPT !.label = Put(@, OptionKey(i), w)], identity)

\* lines 107-110: raises AttributeError when criteria_list was never set
AddCriterionRaises(ss, new_criterion) ==
    new_criterion # "" /\ ~ss.criteria_list.has
AddCriterion(ss, new_criterion) ==
    IF new_criterion # "" /\ new_criterion \notin Range(ss.criteria_list.v)
    THEN [ss EXCEPT !.criteria_list.v = Append(@, new_criterion)]
    ELSE ss

\* lines 117-129; a data row of the comments sheet is <<crit, label, comment>>,
\* which get_all_values() gives as three strings
RECURSIVE SetCommentFor(_, _, _, _)
SetCommentFor(comment, labels, row, i) ==
    IF i > Len(labels) THEN comment
    ELSE SetCommentFor(
            IF labels[i].v = str(row[2])
            THEN Put(comment, <<str(row[1]), labels[i].k>>, str(row[3])) ELSE comment,
            labels, row, i + 1)

RECURSIVE LoadCommentRows(_, _, _)
LoadCommentRows(rows, labels, comment) ==
    IF rows = <<>> THEN comment
    ELSE LoadCommentRows(Tail(rows), labels,
                         SetCommentFor(comment, labels, Head(rows), 1))

LoadComments(ss, sheet, option_labels, faults) ==
    IF <<"read", "comments">> \in faults
    THEN [ss |-> ss, notices |-> <<Notice("warning", "load comments", "")>>]
    ELSE [ss |-> [ss EXCEPT !.comment =
                    LoadCommentRows(sheet.rows, option_labels, ss.comment)],
          notices |-> <<>>]

\* ------------------------------------------------------------- Input UI
\* lines 146-168 and 186: the uploads of one option. a carries the run's
\* state: ss, N, notices, drive, plan (what the environment does to each
\* upload call, in call order), uploads (the calls made).
AfterUpload(a, opt, file, env, res) ==
    [a EXCEPT
        !.plan = Tail(@),
        !.drive = IF res.stored THEN Append(@, [name |-> file, opt |-> opt]) ELSE @,
        !.uploads = Append(@, [opt |-> opt, file |-> file,
                               fault |-> env.fault,
                               delFails |-> env.delFails,
                               link |-> res.link,
                               stored |-> res.stored,
                               tmp_created |-> res.tmp_created,
                               tmp_exists |-> res.tmp_exists,
                               attempts |-> res.attempts,
                               delays |-> res.delays]),
        !.notices = @ \o res.notice]

RECURSIVE UploadLoop(_, _, _, _)
RECURSIVE UploadNext(_, _, _, _, _)
UploadLoop(files, opt, urls, a) ==
    IF files = <<>> THEN [urls |-> urls, a |-> a]
    ELSE UploadNext(files, opt, urls, a,
                    upload_to_drive(Head(files), Head(a.plan).fault,
                                    Head(a.plan).delFails, Len(a.drive) + 1))
UploadNext(files, opt, urls, a, res) ==
    \* lines 164-166: link = upload_to_drive(file, opt); if link: urls.append(link)
    UploadLoop(Tail(files), opt,
               IF res.link # 0 THEN Append(urls, res.link) ELSE urls,
               AfterUpload(a, opt, Head(files), Head(a.plan), res))

\* lines 250-262: the rating sliders of one option; slider_key is
\* f"{person}_{opt}_{crit}"
SliderValue(W, person, opt, crit) ==
    Get(W.slider, <<person, opt, str(crit)>>, DefaultRating)

RatingRows(W, opt, criteria) ==
    [i \in 1..Len(criteria) |->
        [Criteria |-> criteria[i],
         vals |-> [p \in 1..Len(persons) |->
                      SliderValue(W, persons[p], opt, criteria[i])]]]

ScoreTuples(opt, df_rows) ==
    LET n == Len(persons)
    IN  [j \in 1..(Len(df_rows) * n) |->
            LET i == ((j - 1) \div n) + 1
                p == ((j - 1) % n) + 1
            IN  <<df_rows[i].Criteria, persons[p], opt, df_rows[i].vals[p]>>]

DrawnSliders(slider, opt, df_rows) ==
    LET new == {<<persons[p], opt, str(df_rows[i].Criteria)>> :
                    p \in 1..Len(persons), i \in 1..Len(df_rows)}
        val(k) == LET i == CHOOSE i \in 1..Len(df_rows) :
                                str(df_rows[i].Criteria) = k[3]
                      p == CHOOSE p \in 1..Len(persons) : persons[p] = k[1]
                  IN  df_rows[i].vals[p]
    IN  [k \in (DOMAIN slider) \cup new |-> IF k \in new THEN val(k) ELSE slider[k]]

\* lines 264-277: the comment and weight inputs of one option
RECURSIVE CommentWeightLoop(_, _, _, _, _, _, _)
CommentWeightLoop(i, criteria, opt, ss, W, N, identity) ==
    IF i > Len(criteria) THEN [ss |-> ss, N |-> N]
    ELSE LET crit == str(criteria[i])
             c == Drawn(W.comm, <<opt, crit>>,
                        Get(ss.comment, <<crit, opt>>, ""), identity)
             w == Drawn(W.weight, <<opt, crit>>,
                        Get(ss.weight, crit, DefaultWeight), identity)
         IN  CommentWeightLoop(i + 1, criteria, opt,
                [ss EXCEPT !.comment = Put(@, <<crit, opt>>, c.v),
                           !.weight = Put(@, crit, w.v)],
                W,
                [N EXCEPT !.comm = Put(@, <<opt, crit>>, c),
                          !.weight = Put(@, <<opt, crit>>, w)],
                identity)

\* lines 279-294: the data frame of one option and its total
Mean(vals) == (SumSeq(vals) * 100) \div Len(vals)
Average(row) == Mean(row.vals)
Weighted(average, weight) == (average * weight) \div 100

ScoreFrame(df_rows, weight) ==
    [i \in 1..Len(df_rows) |->
        LET avg == IF Len(persons) > 0 THEN Average(df_rows[i])
                   ELSE DefaultRating * 100
            w == Get(weight, str(df_rows[i].Criteria), DefaultWeight)
        IN  [Criteria |-> df_rows[i].Criteria, vals |-> df_rows[i].vals,
             Average |-> avg, Weight |-> w, Weighted |-> Weighted(avg, w)]]

\* the total divided by the sum of the weights
TotalScoreNormalized(frame) ==
    LET total == SumSeq([i \in 1..Len(frame) |-> frame[i].Weighted])
        weights == SumSeq([i \in 1..Len(frame) |-> frame[i].Weight])
    IN  IF weights = 0 THEN 0 ELSE (total * 100) \div weights

TotalScore(frame) == SumSeq([i \in 1..Len(frame) |-> frame[i].Weighted])

\* lines 134-296: the loop over the options. A run that raises stops there
\* (crashed): criteria_list is an attribute of the session state that only
\* a successful load of the setup sheet sets (line 78).
\* line 147
ExistingLinks(existing_urls, opt) ==
    IF DictHas(existing_urls, opt) /\ Truthy(DictGet(existing_urls, opt))
    THEN SplitStr(DictGet(existing_urls, opt), UrlSeparator)
    ELSE <<>>

\* line 186
JoinedUrls(urls) == JoinStr(UrlSeparator, SortedSet(Range(urls)))

\* line 259: Streamlit raises DuplicateWidgetID at the second widget of a
\* run that has the key of an earlier one. The index of the first criterion
\* whose slider keys an earlier criterion has taken (0: none).
FirstDuplicate(criteria) ==
    IF \E i, j \in 1..Len(criteria) : i < j /\ str(criteria[i]) = str(criteria[j])
    THEN CHOOSE j \in 1..Len(criteria) :
            /\ \E i \in 1..(j - 1) : str(criteria[i]) = str(criteria[j])
            /\ \A k \in 1..(j - 1) :
                 ~\E i \in 1..(k - 1) : str(criteria[i]) = str(criteria[k])
    ELSE 0

\* the run's state when the slider of criteria[d] raises: the rows of the
\* criteria before it are drawn and recorded
SliderRaised(a, opt, W, criteria, d) ==
    [a EXCEPT
        !.N.slider = DrawnSliders(@, opt, RatingRows(W, opt, SubSeq(criteria, 1, d - 1))),
        !.all_scores = @ \o ScoreTuples(opt, RatingRows(W, opt, SubSeq(criteria, 1, d - 1))),
        !.crashed = TRUE,
        !.exception = "DuplicateWidgetID"]

\* the run's state after the evaluation block of one option (lines 248-296)
Scored(a, opt, label, df_rows, cw, frame, total) ==
    [a EXCEPT
        !.ss = cw.ss,
        !.N = cw.N,
        !.all_scores = @ \o ScoreTuples(opt, df_rows),
        !.total_scores = DictSet(@, label, total),
        !.shown = Append(@, [opt |-> opt, label |-> label, total |-> total]),
        !.df = DictSet(@, opt, frame)]

RECURSIVE OptionLoop(_, _, _, _, _, _, _)
RECURSIVE OptionUploaded(_, _, _, _, _, _, _)
RECURSIVE OptionRated(_, _, _, _, _, _, _, _, _)
RECURSIVE OptionScored(_, _, _, _, _, _, _, _, _, _)
OptionLoop(j, opts, labels, existing_urls, W, identity, a) ==
    IF j > Len(opts) THEN a
    ELSE OptionUploaded(j, opts, labels, existing_urls, W, identity,
            UploadLoop(Get(W.img, opts[j], <<>>), opts[j],
                       ExistingLinks(existing_urls, opts[j]),
                       [a EXCEPT !.N.img = Put(@, opts[j], Get(W.img, opts[j], <<>>))]))
\* the sliders of an option looked up under its label instead of its key
OptionUploadedSlidersByLabel(j, opts, labels, existing_urls, W, identity, up) ==
    IF ~up.a.ss.criteria_list.has
    THEN [up.a EXCEPT !.image_urls = DictSet(@, opts[j], JoinedUrls(up.urls)),
                      !.crashed = TRUE,
                      !.exception = "AttributeError"]
    ELSE IF FirstDuplicate(up.a.ss.criteria_list.v) > 0
    THEN SliderRaised([up.a EXCEPT !.image_urls = DictSet(@, opts[j], JoinedUrls(up.urls))],
                      opts[j], W, up.a.ss.criteria_list.v,
                      FirstDuplicate(up.a.ss.criteria_list.v))
    ELSE OptionRated(j, opts, labels, existing_urls, W, identity,
            [up.a EXCEPT !.image_urls = DictSet(@, opts[j], JoinedUrls(up.urls))],
            RatingRows(W, DictGet(labels, opts[j]), up.a.ss.criteria_list.v),
            up.a.ss.criteria_list.v)

OptionUploaded(j, opts, labels, existing_urls, W, identity, up) ==
    \* line 186, then line 250
    IF ~up.a.ss.criteria_list.has
    THEN [up.a EXCEPT !.image_urls = DictSet(@, opts[j], JoinedUrls(up.urls)),
                      !.crashed = TRUE,
                      !.exception = "AttributeError"]
    ELSE IF FirstDuplicate(up.a.ss.criteria_list.v) > 0
    THEN SliderRaised([up.a EXCEPT !.image_urls = DictSet(@, opts[j], JoinedUrls(up.urls))],
                      opts[j], W, up.a.ss.criteria_list.v,
                      FirstDuplicate(up.a.ss.criteria_list.v))
    ELSE OptionRated(j, opts, labels, existing_urls, W, identity,
            [up.a EXCEPT !.image_urls = DictSet(@, opts[j], JoinedUrls(up.urls))],
            RatingRows(W, opts[j], up.a.ss.criteria_list.v),
            up.a.ss.criteria_list.v)
OptionRated(j, opts, labels, existing_urls, W, identity, a, df_rows, criteria) ==
    OptionScored(j, opts, labels, existing_urls, W, identity, a, df_rows,
        CommentWeightLoop(1, criteria, opts[j], a.ss, W,
                          [a.N EXCEPT !.slider = DrawnSliders(@, opts[j], df_rows)],
                          identity),
        criteria)
OptionScored(j, opts, labels, existing_urls, W, identity, a, df_rows, cw, criteria) ==
    OptionLoop(j + 1, opts, labels, existing_urls, W, identity,
        Scored(a, opts[j], DictGet(labels, opts[j]), df_rows, cw,
               ScoreFrame(df_rows, cw.ss.weight),
               IF df_rows # <<>>
               THEN TotalScore(ScoreFrame(df_rows, cw.ss.weight)) ELSE 0))

\* ------------------------------------------------------------ the saves
\* The snapshot each save section computes (its rows), as a worksheet.
OptionsRows(labels, image_urls) ==
    Sheet(<<"Key", "Label", "Image URLs">>,
          [i \in 1..Len(labels) |->
              [Key |-> labels[i].k, Label |-> labels[i].v,
               URLs |-> IF DictHas(image_urls, labels[i].k)
                        THEN DictGet(image_urls, labels[i].k) ELSE NoUrls]])

SetupRows(ss) ==
    Sheet(<<"Criteria", "Weight">>,
          [i \in 1..Len(ss.criteria_list.v) |->
              [Criteria |-> ss.criteria_list.v[i],
               Weight |-> Get(ss.weight, str(ss.criteria_list.v[i]), DefaultWeight)]])

RECURSIVE CommentRowsFrom(_, _, _, _, _)
CommentRowsFrom(n, criteria, opts, labels, comment) ==
    \* n counts the (crit, opt) pairs in loop order, from 0
    IF n >= Len(criteria) * Len(opts) THEN <<>>
    ELSE LET crit == criteria[(n \div Len(opts)) + 1]
             opt == opts[(n % Len(opts)) + 1]
             text == Get(comment, <<str(crit), opt>>, "")
         IN  (IF text # "" THEN <<<<crit, DictGet(labels, opt), text>>>> ELSE <<>>)
             \o CommentRowsFrom(n + 1, criteria, opts, labels, comment)

CommentsRows(ss, opts, labels) ==
    Sheet(<<"Criteria", "Option", "Comment">>,
          IF opts = <<>> THEN <<>>
          ELSE CommentRowsFrom(0, ss.criteria_list.v, opts, labels, ss.comment))

ValuesOf(all_scores, crit, opt) ==
    LET idx == {i \in 1..Len(all_scores) :
                    all_scores[i][1] = crit /\ all_scores[i][3] = opt}
        RECURSIVE Pick(_)
        Pick(S) == IF S = {} THEN <<>>
                   ELSE LET m == CHOOSE x \in S : \A y \in S : x <= y
                        IN  <<all_scores[m][4]>> \o Pick(S \ {m})
    IN  Pick(idx)

OverviewRows(ss, opts, labels, all_scores) ==
    Sheet(<<"Criteria">> \o DictValues(labels),
          [i \in 1..Len(ss.criteria_list.v) |->
              [Criteria |-> ss.criteria_list.v[i],
               avgs |-> [j \in 1..Len(opts) |->
                           LET values == ValuesOf(all_scores, ss.criteria_list.v[i], opts[j])
                           IN  IF values # <<>> THEN Mean(values) ELSE -1]]])

FullScoresRows(all_scores) ==
    Sheet(<<"Criteria", "Person", "Option", "Score">>, all_scores)

\* whether the save section writes at all (lines 327, 349, 360)
ShouldWrite(table, rows) ==
    CASE table = "comments" -> Len(rows.rows) > 0
      [] table = "Overview" -> rows.rows # <<>>
      [] table = "Full Scores" -> Len(rows.rows) > 0
      [] OTHER -> TRUE

\* worksheet.clear(): no cell keeps a value
clear(sheet) == EmptySheet

\* worksheet.update("A1", rows): the cells of the range that starts at A1 and
\* has the size of rows take the values of rows; every cell outside the range
\* keeps its value. The data rows of one table are equally wide, but for the
\* Overview, whose width is the number of options.
OverCells(new, old) == new \o SubSeq(old, Len(new) + 1, Len(old))
update(table, sheet, rows) ==
    [header |-> OverCells(rows.header, sheet.header),
     rows |-> [i \in 1..Len(rows.rows) |->
                  IF table = "Overview" /\ i <= Len(sheet.rows)
                  THEN [rows.rows[i] EXCEPT
                          !.avgs = OverCells(@, sheet.rows[i].avgs)]
                  ELSE rows.rows[i]]
              \o SubSeq(sheet.rows, Len(rows.rows) + 1, Len(sheet.rows))]

\* One save section: open the worksheet, clear it, update it; the first call
\* that raises ends the section with st.error, and a call that raised has
\* done nothing.
SaveTable(table, sheet, rows, faults) ==
    LET failed == [sheet |-> sheet, calls |-> <<>>,
                   notices |-> <<Notice("error", "save", table)>>]
    IN  IF <<"open", table>> \in faults THEN failed
        ELSE IF ~ShouldWrite(table, rows)
        THEN [sheet |-> sheet, calls |-> <<>>, notices |-> <<>>]
        ELSE IF <<"clear", table>> \in faults THEN failed
        ELSE IF <<"update", table>> \in faults
        THEN [failed EXCEPT !.sheet = clear(sheet),
                            !.calls = <<[table |-> table, call |-> "clear"]>>]
        ELSE [sheet |-> update(table, clear(sheet), rows),
              calls |-> <<[table |-> table, call |-> "clear"],
                          [table |-> table, call |-> "update"]>>,
              notices |-> <<>>]

Saved(acc, t, r) ==
    [acc EXCEPT !.sheets[t] = r.sheet,
                !.writes = @ \o r.calls,
                !.notices = @ \o r.notices]

\* the five save sections in one try block: the first failure ends them all
RECURSIVE SaveAllInOneTry(_, _, _)
SaveAllInOneTry(i, rows, acc) ==
    IF i > Len(Tables)
       \/ \E n \in 1..Len(acc.notices) : acc.notices[n].level = "error"
    THEN acc
    ELSE SaveAllInOneTry(i + 1, rows,
                         Saved(acc, Tables[i],
                               SaveTable(Tables[i], acc.sheets[Tables[i]],
                                         rows[Tables[i]], acc.faults)))

RECURSIVE SaveAll(_, _, _)
SaveAll(i, rows, acc) ==
    \* lines 298-365, in the order of Tables
    IF i > Len(Tables) THEN acc
    ELSE SaveAll(i + 1, rows,
                 Saved(acc, Tables[i],
                       SaveTable(Tables[i], acc.sheets[Tables[i]], rows[Tables[i]],
                                 acc.faults)))

\* ------------------------------------------------------ Overview Display
\* line 369: one row per key of total_scores
ResultFrame(total_scores) ==
    [i \in 1..Len(total_scores) |->
        [Option |-> total_scores[i].k, Total |-> total_scores[i].v]]

Orderings(n) ==
    {p \in [1..n -> 1..n] : \A i, j \in 1..n : i # j => p[i] # p[j]}

\* line 370: sort_values("Total Score", ascending=False) with pandas' default
\* kind, quicksort, which is not a stable sort: the rows come out in
\* descending order, rows of equal score in an order the build decides.
\* The set of the orders it can return.
sort_values(frame) ==
    {[i \in 1..Len(frame) |-> frame[p[i]]] : p \in
        {q \in Orderings(Len(frame)) :
            \A i, j \in 1..Len(frame) :
                i < j => frame[q[i]].Total >= frame[q[j]].Total}}

\* lines 380-399: the table of the report, one line per row of the frame
generate_pdf(frame) ==
    [i \in 1..Len(frame) |-> <<frame[i].Option, frame[i].Total>>]

\* ------------------------------------------------------------- one render
NoWidgets ==
    [slider |-> NoMap, comm |-> NoMap, weight |-> NoMap, label |-> NoMap,
     img |-> NoMap, col_count |-> NoMap, new_criterion |-> NoMap]
NewSessionState ==
    [criteria_list |-> [has |-> FALSE, v |-> <<>>], weight |-> NoMap,
     comment |-> NoMap]

Merge(old, new) ==
    [k \in (DOMAIN old) \cup (DOMAIN new) |->
        IF k \in DOMAIN new THEN new[k] ELSE old[k]]
KeepWidgets(W, N) ==
    [f \in DOMAIN W |-> Merge(W[f], N[f])]

NoRows == [t \in Range(Tables) |-> EmptySheet]

\* the snapshot of every table (the rows of the five save sections)
Snapshots(labels, a) ==
    [t \in Range(Tables) |->
        CASE t = "options" -> OptionsRows(labels, a.image_urls)
          [] t = "setup" -> SetupRows(a.ss)
          [] t = "comments" -> CommentsRows(a.ss, DictKeys(labels), labels)
          [] t = "Overview" -> OverviewRows(a.ss, DictKeys(labels), labels, a.all_scores)
          [] t = "Full Scores" -> FullScoresRows(a.all_scores)]

\* the run's state when the loop over the options starts (lines 112-115)
StartState(pre, env, N, ss, notices, crashed) ==
    [ss |-> ss, N |-> N, notices |-> notices,
     drive |-> pre.drive, plan |-> env.plan, uploads |-> <<>>,
     total_scores |-> <<>>, all_scores |-> <<>>, image_urls |-> <<>>,
     shown |-> <<>>, df |-> <<>>, crashed |-> crashed,
     exception |-> IF crashed THEN "AttributeError" ELSE ""]

\* what a run leaves: one that reached the end of the script, and one that
\* an uncaught exception stopped (Streamlit shows the exception and keeps
\* the widgets' values)
Completed(labels, a, rows, sv) ==
    [sheets |-> sv.sheets, drive |-> a.drive, ss |-> a.ss, W |-> a.N,
     option_labels |-> labels, options |-> DictKeys(labels),
     image_urls |-> a.image_urls, total_scores |-> a.total_scores,
     all_scores |-> a.all_scores, shown |-> a.shown, df |-> a.df,
     notices |-> sv.notices, uploads |-> a.uploads, writes |-> sv.writes,
     rows |-> rows, completed |-> TRUE]
Raised(pre, labels, a) ==
    [sheets |-> pre.sheets, drive |-> a.drive, ss |-> a.ss,
     W |-> KeepWidgets(pre.W, a.N),
     option_labels |-> labels, options |-> DictKeys(labels),
     image_urls |-> a.image_urls, total_scores |-> a.total_scores,
     all_scores |-> a.all_scores, shown |-> a.shown, df |-> a.df,
     notices |-> a.notices \o <<Notice("exception", a.exception, "")>>,
     uploads |-> a.uploads, writes |-> <<>>, rows |-> NoRows,
     completed |-> FALSE]

\* lines 298-365
RenderSaves(pre, env, labels, a, rows) ==
    Completed(labels, a, rows,
              SaveAll(1, rows, [sheets |-> pre.sheets, writes |-> <<>>,
                                notices |-> a.notices, faults |-> env.faults]))

\* lines 131-296
RenderOptions(pre, env, labels, a) ==
    IF a.crashed THEN Raised(pre, labels, a)
    ELSE RenderSaves(pre, env, labels, a, Snapshots(labels, a))

\* lines 112-296
RenderComments(pre, env, s1, lo, labels, N, lc) ==
    RenderOptions(pre, env, labels,
        OptionLoop(1, DictKeys(labels), labels, lo.existing_urls, pre.W, pre.identity,
                   StartState(pre, env, N, lc.ss,
                              s1.notices \o lo.notices \o lc.notices, FALSE)))

\* lines 107-129
RenderCriteria(pre, env, s1, lo, labels, N) ==
    IF AddCriterionRaises(s1.ss, N.new_criterion["new_criterion"].v)
    THEN Raised(pre, labels,
                StartState(pre, env, N, s1.ss, s1.notices \o lo.notices, TRUE))
    ELSE RenderComments(pre, env, s1, lo, labels, N,
            LoadComments(AddCriterion(s1.ss, N.new_criterion["new_criterion"].v),
                         pre.sheets["comments"], labels, env.faults))
\* lines 107-108
RenderLabelled(pre, env, s1, lo, ll) ==
    RenderCriteria(pre, env, s1, lo, ll.option_labels,
        [ll.N EXCEPT !.new_criterion =
            Put(@, "new_criterion",
                Drawn(pre.W.new_criterion, "new_criterion", "", "params"))])

\* lines 97-105
RenderLabels(pre, env, s1, lo, col) ==
    RenderLabelled(pre, env, s1, lo,
        LabelLoop(0, col.v, lo.option_labels, pre.W,
                  [NoWidgets EXCEPT !.col_count = Put(@, "col_count", col)],
                  pre.identity))
\* lines 73-98
RenderLoaded(pre, env, s1, lo) ==
    RenderLabels(pre, env, s1, lo,
        Drawn(pre.W.col_count, "col_count", ColCountDefault(lo.options), "params"))

\* The script, top to bottom. pre: the sheets, the Drive folder, the session
\* state and the widgets as the run finds them; env: the calls that raise
\* (faults) and what happens to each upload (plan).
Render(pre, env) ==
    RenderLoaded(pre, env,
                 LoadSetup(pre.ss, pre.sheets["setup"], env.faults),
                 LoadOptions(pre.sheets["options"], env.faults))

\* ------------------------------------------------------------- the state
VARIABLES
    sheets,         \* the five worksheets of "Decision Matrix Data"
    drive,          \* the files stored in the Drive folder, in upload order
    session_state,  \* st.session_state: criteria_list, weight_*, comment_*
    widgets,        \* the widgets of the page and their values
    identity,       \* how this Streamlit release identifies a widget
    option_labels, options, image_urls, total_scores, all_scores,
    result_df,      \* the script's globals after the last run
    pdf,            \* the rows of the report offered for download
    shown,          \* the totals the last run displayed (line 296)
    df,             \* the data frame of each option of the last run
    notices,        \* st.warning / st.error / exception boxes of the last run
    uploads,        \* the upload_to_drive calls of the last run
    writes,         \* the clear and update calls of the last run
    rows,           \* the snapshot the last run computed for each table
    completed,      \* the last run reached the end of the script
    env_faults,     \* the calls that raised in the last run
    written,        \* per table, the snapshot last written successfully
    prev_written,   \* written, as the last run found it
    prev_sheets,    \* sheets, as the last run found them
    session_runs,   \* runs of this session so far
    renders,        \* runs so far
    faults_used,    \* failures of the environment so far
    fault_at,       \* the run of the last failure (0: none yet)
    interaction,    \* what the user did to start the last run
    rated,          \* the sliders the user has moved in this session
    saving,         \* the browser sessions whose runs are saving at once
    copy3           \* a run of the revision "Copy (3)" from line 319 on

vars == <<sheets, drive, session_state, widgets, identity, option_labels,
          options, image_urls, total_scores, all_scores, result_df, pdf, shown,
          df, notices, uploads, writes, rows, completed, env_faults, written,
          prev_written, prev_sheets, session_runs, renders, faults_used,
          fault_at, interaction, rated, saving, copy3>>

\* The spreadsheet as a render can find it first: with five empty worksheets
\* (fresh), or with the criteria and the options its owner entered by hand.
\* No revision of the script in src/ can fill an empty setup sheet through
\* this script, so a usable spreadsheet starts with the latter.
PreparedOptions == 2
FreshSheets == [t \in Range(Tables) |-> EmptySheet]
PreparedSheets ==
    [FreshSheets EXCEPT
        !["setup"] = Sheet(<<"Criteria", "Weight">>,
                           <<[Criteria |-> CritPool[1], Weight |-> DefaultWeight]>>),
        !["options"] = Sheet(<<"Key", "Label", "Image URLs">>,
                             [i \in 1..PreparedOptions |->
                                 [Key |-> OptionKey(i - 1), Label |-> OptionKey(i - 1),
                                  URLs |-> NoUrls]])]

\* the state of the script and of the browser before the first run
NoSession ==
    /\ drive = <<>>
    /\ session_state = NewSessionState
    /\ widgets = NoWidgets
    /\ identity \in WidgetIdentities
    /\ option_labels = <<>> /\ options = <<>> /\ image_urls = <<>>
    /\ total_scores = <<>> /\ all_scores = <<>> /\ result_df = <<>>
    /\ pdf = <<>> /\ shown = <<>> /\ df = <<>> /\ notices = <<>>
    /\ uploads = <<>> /\ writes = <<>> /\ rows = NoRows
    /\ completed = FALSE
    /\ env_faults = {}
    /\ written = [t \in Range(Tables) |-> [has |-> FALSE, rows |-> EmptySheet]]
    /\ prev_written = written
    /\ prev_sheets = sheets
    /\ session_runs = 0
    /\ renders = 0
    /\ faults_used = 0
    /\ fault_at = 0
    /\ interaction = ""
    /\ rated = {}

NoCopy3 == [pc |-> "none"]
Init ==
    /\ sheets \in {FreshSheets, PreparedSheets}
    /\ saving = <<>>
    /\ copy3 = NoCopy3
    /\ NoSession

\* ------------------------------------------------------- the environment
SheetFaults ==
    {<<"read", t>> : t \in {"setup", "options", "comments"}}
    \cup {<<c, t>> : c \in {"open", "clear", "update"}, t \in Range(Tables)}

CleanUpload == [fault |-> "none", delFails |-> 0]
UploadEnvs ==
    {e \in [fault : UploadFaults, delFails : 0..max_retries] :
        e.fault = "tempfile" => e.delFails = 0}

FaultyCalls(plan) == Cardinality({i \in 1..Len(plan) : plan[i] # CleanUpload})

SelectedFiles(W) == SumSeq([i \in 1..MaxColCount |->
                              Len(Get(W.img, OptionKey(i - 1), <<>>))])

RECURSIVE FaultSets(_)
FaultSets(budget) ==
    IF budget <= 0 THEN {{}}
    ELSE FaultSets(budget - 1)
         \cup {g \cup {f} : g \in FaultSets(budget - 1), f \in SheetFaults}

Envs(W, budget) ==
    {[faults |-> f, plan |-> p] :
        f \in FaultSets(budget),
        p \in [1..SelectedFiles(W) -> UploadEnvs]}

EnvCost(env) == Cardinality(env.faults) + FaultyCalls(env.plan)

\* ------------------------------------------------------------ the actions
\* A run of the script over the session state ss and the widgets W; budget:
\* how many failures the environment may produce in it; what: the user's
\* interaction that starts it; moved: the sliders moved in the session.
Run(ss, W, runs, budget, what, moved) ==
    /\ renders < MaxRenders
    /\ fault_at = 0 \/ renders < fault_at + MaxAfterFault
    /\ \E env \in Envs(W, budget) :
        /\ EnvCost(env) <= budget
        /\ \E r \in {Render([sheets |-> sheets, drive |-> drive, ss |-> ss,
                            W |-> W, identity |-> identity], env)} :
               /\ sheets' = r.sheets
               /\ drive' = r.drive
               /\ session_state' = r.ss
               /\ widgets' = r.W
               /\ option_labels' = r.option_labels
               /\ options' = r.options
               /\ image_urls' = r.image_urls
               /\ total_scores' = r.total_scores
               /\ all_scores' = r.all_scores
               /\ result_df' \in (IF r.completed
                                  THEN sort_values(ResultFrame(r.total_scores))
                                  ELSE {<<>>})
               /\ pdf' = IF r.completed THEN generate_pdf(result_df') ELSE <<>>
               /\ shown' = r.shown
               /\ df' = r.df
               /\ notices' = r.notices
               /\ uploads' = r.uploads
               /\ writes' = r.writes
               /\ rows' = r.rows
               /\ completed' = r.completed
               /\ written' = [t \in Range(Tables) |->
                                IF [table |-> t, call |-> "update"] \in Range(r.writes)
                                THEN [has |-> TRUE, rows |-> r.rows[t]]
                                ELSE written[t]]
        /\ env_faults' = env.faults
        /\ faults_used' = faults_used + EnvCost(env)
        /\ fault_at' = IF EnvCost(env) > 0 THEN renders + 1 ELSE fault_at
    /\ prev_written' = written
    /\ prev_sheets' = sheets
    /\ session_runs' = runs + 1
    /\ renders' = renders + 1
    /\ interaction' = what
    /\ rated' = moved
    /\ UNCHANGED <<identity, saving, copy3>>

\* The remote calls and the file deletions fail in the runs that open the
\* page, rerun it or follow a file selection or the entry of a criterion; a
\* run that follows the edit of another widget meets no failure.
Budget == MaxFaults - faults_used

\* the browser opens the page: a new session, its first run
OpenPage ==
    /\ renders < MaxRenders
    /\ Run(NewSessionState, NoWidgets, 0, Budget, "open", {})

\* an interaction that changes no widget (the download button, "R")
Rerun ==
    /\ session_runs > 0
    /\ Run(session_state, widgets, session_runs, Budget, "rerun", rated)

SetWidget(field, k, v, budget) ==
    /\ k \in DOMAIN widgets[field]
    /\ widgets[field][k].v # v
    /\ Run(session_state, [widgets EXCEPT ![field][k].v = v], session_runs,
           budget, field, rated)

\* line 259: st.slider(person, 1, 5, ...) gives the script no value outside
\* its range, whatever the browser sends
SliderAttempts == (MinRating - 1)..(MaxRating + 1)
SliderUnbounded(v) == v \in Int
SliderAccepts(v) == v \in MinRating..MaxRating

MoveSlider ==
    \E k \in DOMAIN widgets.slider, v \in SliderAttempts :
        /\ SliderAccepts(v)
        /\ widgets.slider[k] # v
        /\ Run(session_state, [widgets EXCEPT !.slider[k] = v], session_runs,
               0, "slider", rated \cup {k})

EditWeight ==
    \E k \in DOMAIN widgets.weight, v \in WeightInputs : SetWidget("weight", k, v, 0)

EditComment ==
    \E k \in DOMAIN widgets.comm, v \in CommentInputs : SetWidget("comm", k, v, 0)

EditLabel ==
    \E k \in DOMAIN widgets.label, v \in LabelInputs : SetWidget("label", k, v, 0)

SetColCount ==
    /\ session_runs > 0
    /\ \E v \in 1..MaxColCount : SetWidget("col_count", "col_count", v, 0)

TypeCriterion ==
    /\ session_runs > 0
    /\ \E v \in CritInputs : SetWidget("new_criterion", "new_criterion", v, Budget)

SelectFiles ==
    \E k \in DOMAIN widgets.img, f \in {<<>>} \cup {<<x>> : x \in Files} :
        /\ widgets.img[k] # f
        /\ SelectedFiles([widgets EXCEPT !.img[k] = f]) <= MaxSelected
        /\ Run(session_state, [widgets EXCEPT !.img[k] = f], session_runs,
               Budget, "img", rated)

Next ==
    \/ OpenPage
    \/ Rerun
    \/ MoveSlider
    \/ EditWeight
    \/ EditComment
    \/ EditLabel
    \/ SetColCount
    \/ TypeCriterion
    \/ SelectFiles

Spec == Init /\ [][Next]_vars

\* ------------------------------------------- two sessions saving at once
\* Streamlit runs the script of every browser session in a thread of its
\* own, so the save sections (lines 298-365) of two runs interleave call by
\* call. Two sessions have opened the prepared spreadsheet; in each the user
\* sets the number of options or moves a slider to an end of its range, and
\* the two runs load the sheets before either saves.
NoFailure == [faults |-> {}, plan |-> <<>>]
FirstRender ==
    Render([sheets |-> PreparedSheets, drive |-> <<>>, ss |-> NewSessionState,
            W |-> NoWidgets, identity |-> "key"], NoFailure)
SecondRender(W) ==
    Render([sheets |-> FirstRender.sheets, drive |-> <<>>, ss |-> FirstRender.ss,
            W |-> W, identity |-> "key"], NoFailure)
SessionEdits ==
    {[FirstRender.W EXCEPT !.col_count["col_count"].v = n] : n \in 1..MaxColCount}
    \cup {[FirstRender.W EXCEPT !.slider[k] = v] :
            k \in DOMAIN FirstRender.W.slider, v \in {MinRating, MaxRating}}

\* a session's position in the save sections: 2 * (tables done) + (1 after
\* the clear of the next table)
SavesDone == 2 * Len(Tables)
SavingTable(i) == Tables[(saving[i].pc \div 2) + 1]

InitSaving ==
    /\ sheets = FirstRender.sheets
    /\ saving \in [1..2 -> {[rows |-> SecondRender(W).rows, pc |-> 0] :
                                W \in SessionEdits}]
    /\ copy3 = NoCopy3
    /\ NoSession

\* what the save calls leave alone
script_vars ==
    <<drive, session_state, widgets, identity, option_labels, options,
      image_urls, total_scores, all_scores, result_df, pdf, shown, df, notices,
      uploads, writes, rows, completed, env_faults, written, prev_written,
      prev_sheets, session_runs, renders, faults_used, fault_at, interaction,
      rated>>

\* lines 302, 312, 328, 350, 361
SheetClear(i) ==
    /\ saving[i].pc < SavesDone
    /\ saving[i].pc % 2 = 0
    /\ ShouldWrite(SavingTable(i), saving[i].rows[SavingTable(i)])
    /\ sheets' = [sheets EXCEPT ![SavingTable(i)] = clear(@)]
    /\ saving' = [saving EXCEPT ![i].pc = @ + 1]
    /\ UNCHANGED <<script_vars, copy3>>

\* lines 303, 313, 329, 351, 362
SheetUpdate(i) ==
    /\ saving[i].pc < SavesDone
    /\ saving[i].pc % 2 = 1
    /\ sheets' = [sheets EXCEPT ![SavingTable(i)] =
                     update(SavingTable(i), @, saving[i].rows[SavingTable(i)])]
    /\ saving' = [saving EXCEPT ![i].pc = @ + 1]
    /\ UNCHANGED <<script_vars, copy3>>

\* lines 327, 349, 360: nothing to save
SheetSkip(i) ==
    /\ saving[i].pc < SavesDone
    /\ saving[i].pc % 2 = 0
    /\ ~ShouldWrite(SavingTable(i), saving[i].rows[SavingTable(i)])
    /\ saving' = [saving EXCEPT ![i].pc = @ + 2]
    /\ UNCHANGED <<sheets, script_vars, copy3>>

NextSaving ==
    \E i \in 1..2 : SheetClear(i) \/ SheetUpdate(i) \/ SheetSkip(i)

SpecSaving == InitSaving /\ [][NextSaving]_vars

\* ------------------------------------------------- the revision "Copy (3)"
\* src/alt/decision_matrix_with_gsheets - Copy (3).py, lines 27-94 and
\* 319-468: upload_to_drive reports a failure and returns None, and the
\* uploader comes after the sliders and the comments of the option.
\* The upload_to_drive of this revision; link 0 is None.
Copy3_upload_to_drive(file, fault, delFails, id) ==
    LET tmp_path == fault # "tempfile"
        tries == IF tmp_path THEN Min(delFails + 1, max_retries) ELSE 0
        failed == IF tmp_path THEN Min(delFails, max_retries) ELSE 0
    IN  [link |-> IF fault = "none" THEN id ELSE 0,
         stored |-> fault \in {"none", "permission"},
         name |-> file,
         notice |-> (IF fault = "none" THEN <<>>
                     ELSE <<Notice("error", "upload", file)>>)
                    \o [k \in 1..failed |-> Notice("warning", "delete", file)]
                    \o (IF tmp_path /\ delFails >= max_retries
                        THEN <<Notice("error", "delete", file)>> ELSE <<>>),
         tmp_created |-> tmp_path,
         tmp_exists |-> tmp_path /\ delFails >= max_retries,
         attempts |-> tries,
         delays |-> [k \in 1..failed |-> initial_delay * Pow2(k - 1)]]

\* what happens to one selected file: the call of upload_to_drive's try
\* block that raises, whether every os.remove raises, whether st.image
\* raises
Copy3MaxOptions == 2
Copy3MaxFiles == 2
Copy3FileEnvs ==
    {e \in [fault : UploadFaults, delFails : {0, max_retries}, image : BOOLEAN] :
        e.fault = "tempfile" => e.delFails = 0}
Copy3Selections ==
    UNION {[1..k -> Copy3FileEnvs] : k \in 0..Copy3MaxFiles}
Copy3Stored == {NoUrls, JoinStr(UrlSeparator, <<"u0">>)}

\* the script at line 319: n options, the files selected for each (only the
\* first option takes more than one), the image urls loaded for each
InitCopy3 ==
    /\ sheets = PreparedSheets
    /\ saving = <<>>
    /\ NoSession
    /\ \E n \in 1..Copy3MaxOptions :
         \E uploaded \in [1..n -> Copy3Selections],
            existing_urls \in [1..n -> Copy3Stored] :
            /\ \A o \in 2..n : Len(uploaded[o]) <= 1
            /\ copy3 = [pc |-> "evaluate", opt |-> 1, n |-> n,
                        uploaded |-> uploaded, existing_urls |-> existing_urls,
                        urls |-> <<>>, calls |-> <<>>, image_urls |-> <<>>,
                        rated |-> {}, totalled |-> {}, saves |-> <<>>,
                        notices |-> <<>>, shown |-> FALSE, exception |-> ""]

copy3_rest == <<sheets, saving, script_vars>>

\* lines 319-349: the sliders, the comments and the uploader of the option
Copy3Evaluate ==
    /\ copy3.pc = "evaluate"
    /\ copy3' = [copy3 EXCEPT !.pc = "upload", !.rated = @ \cup {copy3.opt},
                              !.urls = <<>>]
    /\ UNCHANGED copy3_rest

\* lines 350-356: one pass of the loop over the files of the option
Copy3Upload ==
    /\ copy3.pc = "upload"
    /\ Len(copy3.urls) < Len(copy3.uploaded[copy3.opt])
    /\ LET file == Len(copy3.urls) + 1
           e == copy3.uploaded[copy3.opt][file]
           r == Copy3_upload_to_drive(<<copy3.opt, file>>, e.fault, e.delFails,
                                      Len(copy3.calls) + 1)
       IN  copy3' = [copy3 EXCEPT
                        !.urls = Append(@, r.link),
                        !.calls = Append(@, [opt |-> copy3.opt, file |-> file,
                                             link |-> r.link]),
                        !.notices = @ \o r.notice \o
                            (IF e.image THEN <<>>
                             ELSE <<Notice("warning", "upload", <<copy3.opt, file>>)>>)]
    /\ UNCHANGED copy3_rest

\* line 357: ", ".join(urls) raises TypeError when an item of urls is None;
\* the statement is in no try block, so the run ends there
Copy3Join ==
    /\ copy3.pc = "upload"
    /\ Len(copy3.urls) = Len(copy3.uploaded[copy3.opt])
    /\ copy3' =
         IF 0 \in Range(copy3.urls)
         THEN [copy3 EXCEPT !.pc = "end", !.exception = "TypeError"]
         ELSE [copy3 EXCEPT
                  !.pc = "total",
                  !.image_urls = Append(@,
                      IF copy3.urls # <<>>
                      THEN JoinStr(UrlSeparator, copy3.urls)
                      ELSE copy3.existing_urls[copy3.opt])]
    /\ UNCHANGED copy3_rest

\* lines 359-376: the total of the option, then the next option
Copy3Total ==
    /\ copy3.pc = "total"
    /\ copy3' = [copy3 EXCEPT
                    !.totalled = @ \cup {copy3.opt},
                    !.opt = @ + 1,
                    !.pc = IF copy3.opt < copy3.n THEN "evaluate" ELSE "save"]
    /\ UNCHANGED copy3_rest

\* lines 378-434: the next of the five saves; whatever it raises is dropped
Copy3Save ==
    /\ copy3.pc = "save"
    /\ Len(copy3.saves) < Len(Tables)
    /\ \E ok \in BOOLEAN :
         copy3' = [copy3 EXCEPT
                      !.saves = Append(@, [table |-> Tables[Len(copy3.saves) + 1],
                                           ok |-> ok])]
    /\ UNCHANGED copy3_rest

\* lines 436-468: the comparison table and the report
Copy3Show ==
    /\ copy3.pc = "save"
    /\ Len(copy3.saves) = Len(Tables)
    /\ copy3' = [copy3 EXCEPT !.pc = "end", !.shown = TRUE]
    /\ UNCHANGED copy3_rest

NextCopy3 ==
    \/ Copy3Evaluate
    \/ Copy3Upload
    \/ Copy3Join
    \/ Copy3Total
    \/ Copy3Save
    \/ Copy3Show

SpecCopy3 == InitCopy3 /\ [][NextCopy3]_vars

\* =============================================================== claims
criteria_list == session_state.criteria_list.v
Rating(person, opt, crit) == widgets.slider[<<person, opt, str(crit)>>]
WeightField(opt, crit) == widgets.weight[<<opt, str(crit)>>].v
WritesOn(t) == {i \in 1..Len(writes) : writes[i].table = t}

\* C1: in a run that completes, the total displayed for every option is the
\* sum over the criteria of the active list of (the mean of the two
\* reviewers' ratings) x (the criterion's weight as the option's block holds
\* it), not divided by the sum of the weights. In hundredths, with the mean
\* (a + b) / 2: 2 * total = sum of (a + b) * weight.
C1_TotalIsWeightedSum ==
    completed =>
        /\ Len(shown) = Len(options)
        /\ \A i \in 1..Len(shown) :
            /\ shown[i].opt = options[i]
            /\ 2 * shown[i].total =
                 SumSeq([k \in 1..Len(criteria_list) |->
                           (Rating("Maya", options[i], criteria_list[k])
                            + Rating("Mike", options[i], criteria_list[k]))
                           * WeightField(options[i], criteria_list[k])])

\* C1 happens: an option rated 4 and 3 under a weight of 2.0 shows 7.00
C1_Witness ==
    /\ completed
    /\ \E i \in 1..Len(shown) :
        /\ shown[i].total = 700
        /\ \E c \in Range(criteria_list) :
            /\ Rating("Maya", shown[i].opt, c) # Rating("Mike", shown[i].opt, c)
            /\ WeightField(shown[i].opt, c) = 200

\* C2 (as claimed): a criterion has one weight per run: every option's data
\* frame and the row written to the setup sheet carry the same weight for it.
C2_OneWeightPerCriterion ==
    completed =>
        \A i \in 1..Len(df) : \A k \in 1..Len(df[i].v) :
            \A r \in Range(rows["setup"].rows) :
                r.Criteria = df[i].v[k].Criteria => r.Weight = df[i].v[k].Weight

\* C3 (as claimed): the ranked frame is in descending order of total score,
\* and rows of equal score keep the order in which the options were scored.
PositionIn(scores, label) == CHOOSE i \in 1..Len(scores) : scores[i].k = label
C3_RankedDescendingStable ==
    completed =>
        \A i, j \in 1..Len(result_df) :
            i < j =>
                /\ result_df[i].Total >= result_df[j].Total
                /\ result_df[i].Total = result_df[j].Total =>
                     PositionIn(total_scores, result_df[i].Option)
                       < PositionIn(total_scores, result_df[j].Option)

\* C4 (as claimed): the ranked frame and the report have exactly one row per
\* option of the form, each row with that option's own total.
C4_OneRowPerOption ==
    completed =>
        /\ Len(result_df) = Len(options)
        /\ Len(pdf) = Len(options)
        /\ \A i \in 1..Len(shown) :
            \E j \in 1..Len(result_df) :
                /\ result_df[j].Option = shown[i].label
                /\ result_df[j].Total = shown[i].total

\* C5 (as claimed): a run whose snapshot of a table equals the snapshot last
\* written successfully makes no clear and no update call on that table.
C5_NoRedundantWrite ==
    completed =>
        \A t \in Range(Tables) :
            (prev_written[t].has /\ rows[t] = prev_written[t].rows)
                => WritesOn(t) = {}

\* C6 (as claimed): a run in which no call raises leaves a table equal to the
\* run's snapshot whenever the snapshot's data rows differ from the rows the
\* run found in the table, also when the snapshot has no data row.
C6_NoWriteSkipped ==
    (completed /\ env_faults = {}) =>
        \A t \in Range(Tables) :
            rows[t].rows # prev_sheets[t].rows => sheets[t] = rows[t]

\* C7 (as claimed): a file is stored in the Drive folder at most once per
\* option, however many runs find it selected in the option's uploader.
C7_UploadedOncePerOption ==
    \A i, j \in 1..Len(drive) :
        (drive[i].name = drive[j].name /\ drive[i].opt = drive[j].opt) => i = j

SetupNotLoaded ==
    \/ <<"read", "setup">> \in env_faults
    \/ ~HasColumns(prev_sheets["setup"], {"Criteria", "Weight"})
C9_SetupLoadFailureNotFatal ==
    (session_runs > 0 /\ SetupNotLoaded) =>
        /\ completed
        /\ \E i \in 1..Len(notices) :
            notices[i].level = "warning" /\ notices[i].about = "load setup"

\* C10 (as claimed): every upload that fails leaves a notice naming the file
\* in the run.
C10_UploadFailureNoticed ==
    \A i \in 1..Len(uploads) :
        uploads[i].link = 0 =>
            \E n \in 1..Len(notices) :
                notices[n].about = "upload" /\ notices[n].arg = uploads[i].file

\* a call of the save section of table t raised in the last run
SaveRaised(t) ==
    \/ <<"open", t>> \in env_faults
    \/ /\ ShouldWrite(t, rows[t])
       /\ <<"clear", t>> \in env_faults \/ <<"update", t>> \in env_faults
\* no exception stopped the last run before its save sections
ReachedSaves ==
    /\ session_runs > 0
    /\ \A n \in 1..Len(notices) : notices[n].level # "exception"

\* C11: when a call of one table's save section raises, the run shows an
\* error notice naming the table and goes on: every other table whose
\* section meets no failure holds the run's snapshot (or is left as found
\* when the section has nothing to write), the ranking is displayed, sorted
\* from the totals, and the report holds its rows.
C11_SaveFailureContained ==
    \A t \in Range(Tables) :
        (ReachedSaves /\ SaveRaised(t)) =>
            /\ completed
            /\ \E n \in 1..Len(notices) :
                 notices[n] = Notice("error", "save", t)
            /\ \A u \in Range(Tables) \ {t} :
                 ~SaveRaised(u) =>
                    sheets[u] = IF ShouldWrite(u, rows[u]) THEN rows[u]
                                ELSE prev_sheets[u]
            /\ result_df \in sort_values(ResultFrame(total_scores))
            /\ pdf = generate_pdf(result_df)

\* C11 happens: the save of the setup sheet fails, the Full Scores sheet is
\* written after it and the ranking has rows
C11_Witness ==
    /\ ReachedSaves
    /\ SaveRaised("setup")
    /\ [table |-> "Full Scores", call |-> "update"] \in Range(writes)
    /\ sheets["Full Scores"] = rows["Full Scores"]
    /\ result_df # <<>>

\* C12 (as claimed): when a run finds the options sheet as the last
\* successful save of the options left it and reads it without failure, the
\* read gives, for every key written, the label that was written (as text)
\* and the set of urls that was written.
C12_OptionsRoundTrip ==
    (/\ session_runs > 0
     /\ prev_written["options"].has
     /\ prev_sheets["options"] = prev_written["options"].rows
     /\ <<"read", "options">> \notin env_faults) =>
        \A i \in 1..Len(prev_sheets["options"].rows) :
            LET row == prev_sheets["options"].rows[i]
                read == LoadOptions(prev_sheets["options"], {})
            IN  /\ DictHas(read.option_labels, row.Key)
                /\ str(DictGet(read.option_labels, row.Key)) = row.Label
                /\ Range(ExistingLinks(read.existing_urls, row.Key))
                     = Range(row.URLs.parts)

\* C13: every rating a run records is an integer from 1 to 5: the tuples of
\* all_scores, the rows of the Full Scores sheet and the values that enter
\* the averages of the options' data frames.
C13_RatingsInRange ==
    /\ \A i \in 1..Len(all_scores) : all_scores[i][4] \in 1..5
    /\ \A i \in 1..Len(sheets["Full Scores"].rows) :
         sheets["Full Scores"].rows[i][4] \in 1..5
    /\ \A i \in 1..Len(df) : \A k \in 1..Len(df[i].v) :
         \A p \in 1..Len(df[i].v[k].vals) : df[i].v[k].vals[p] \in 1..5

\* C13 happens: the user has moved a slider to an end of its range and the
\* run has recorded and saved the rating
C13_Witness ==
    /\ interaction = "slider"
    /\ completed
    /\ \E i \in 1..Len(all_scores) :
         /\ all_scores[i][4] = 5
         /\ all_scores[i] \in Range(sheets["Full Scores"].rows)
    /\ \E i \in 1..Len(all_scores) : all_scores[i][4] = 1

\* C14: the run that follows the edit of a label has the option keys, the
\* sliders (keyed by reviewer, option key and criterion), the recorded
\* ratings and the averages that a rerun without the edit would have had,
\* and every slider that is on the page before and after keeps its value.
Averages(frames) ==
    [i \in 1..Len(frames) |->
        [k \in 1..Len(frames[i].v) |->
            <<frames[i].k, frames[i].v[k].Criteria, frames[i].v[k].Average>>]]
WithoutEdit ==
    Render([sheets |-> sheets, drive |-> drive, ss |-> session_state,
            W |-> widgets, identity |-> identity],
           [faults |-> {}, plan |-> [i \in 1..SelectedFiles(widgets) |-> CleanUpload]])
C14_RelabelKeepsRatings ==
    [][interaction' = "label" =>
        /\ options' = WithoutEdit.options
        /\ widgets'.slider = WithoutEdit.W.slider
        /\ all_scores' = WithoutEdit.all_scores
        /\ Averages(df') = Averages(WithoutEdit.df)
        /\ \A k \in (DOMAIN widgets.slider) \cap (DOMAIN widgets'.slider) :
             widgets'.slider[k] = widgets.slider[k]]_vars

\* C14 happens: an option whose slider the user has moved off the default has
\* been given another label
C14_Witness ==
    /\ interaction = "label"
    /\ completed
    /\ \E k \in rated :
         /\ k \in DOMAIN widgets.slider
         /\ widgets.slider[k] # DefaultRating
         /\ DictGet(option_labels, k[2]) # k[2]

\* C15 (as claimed): the first run of a session, when it completes and no
\* call raises in it, shows, for
\* every rating row it found in the Full Scores sheet whose option and
\* criterion are on the page, the slider at the row's score, and leaves the
\* row in the sheet.
C15_RatingsSeededFromSheet ==
    (session_runs = 1 /\ completed /\ env_faults = {}) =>
        \A i \in 1..Len(prev_sheets["Full Scores"].rows) :
            LET row == prev_sheets["Full Scores"].rows[i]
            IN  <<row[2], row[3], str(row[1])>> \in DOMAIN widgets.slider =>
                    /\ Rating(row[2], row[3], row[1]) = row[4]
                    /\ row \in Range(sheets["Full Scores"].rows)

\* C16 (as claimed): when the two sessions have made all their save calls,
\* every table that both wrote holds the complete snapshot of one of them.
C16_LastFullWriteWins ==
    (\A i \in DOMAIN saving : saving[i].pc = SavesDone) =>
        \A t \in Range(Tables) :
            (\A i \in DOMAIN saving : ShouldWrite(t, saving[i].rows[t])) =>
                \E i \in DOMAIN saving : sheets[t] = saving[i].rows[t]

\* C17 (as claimed): in a run that completes, the average of an option and
\* a criterion is the mean of the ratings of the reviewers who have moved
\* their slider for the pair in this session, and 3 when neither has.
RatedBy(opt, crit) ==
    {p \in 1..Len(persons) : <<persons[p], opt, str(crit)>> \in rated}
C17_AverageOfGivenRatings ==
    completed =>
        \A i \in 1..Len(df) : \A k \in 1..Len(df[i].v) :
            LET row == df[i].v[k]
                given == RatedBy(df[i].k, row.Criteria)
            IN  IF given = {} THEN row.Average = 300
                ELSE row.Average * Cardinality(given) =
                        100 * SumSeq([p \in 1..Len(persons) |->
                                        IF p \in given THEN row.vals[p] ELSE 0])

\* C18 (as claimed): the active criteria list never holds a name twice.
C18_CriteriaUnique ==
    \A i, j \in 1..Len(criteria_list) :
        i < j => str(criteria_list[i]) # str(criteria_list[j])

\* C19 (as claimed): a run that completes without a failing call leaves in
\* the Full Scores sheet every rating row it found there for a criterion that
\* is not in the active list.
C19_OldRatingsKept ==
    (completed /\ env_faults = {}) =>
        \A i \in 1..Len(prev_sheets["Full Scores"].rows) :
            LET row == prev_sheets["Full Scores"].rows[i]
            IN  (\A k \in 1..Len(criteria_list) : str(criteria_list[k]) # str(row[1]))
                    => row \in Range(sheets["Full Scores"].rows)

\* C20: every call of upload_to_drive makes at most 5 deletion attempts,
\* stops at the first that succeeds, and waits 0.1, 0.2, 0.4, 0.8 and 1.6 s
\* (in hundredths) after the first to the fifth failed attempt; nothing else
\* is retried: a run calls upload_to_drive once per selected file and makes
\* at most one clear and one update call per table.
BackoffWaits == <<10, 20, 40, 80, 160>>
C20_BoundedCleanupBackoff ==
    /\ \A i \in 1..Len(uploads) :
         /\ uploads[i].attempts <= 5
         /\ uploads[i].attempts =
              (IF ~uploads[i].tmp_created THEN 0
               ELSE IF uploads[i].delFails < 5 THEN uploads[i].delFails + 1 ELSE 5)
         /\ Len(uploads[i].delays) =
              (IF uploads[i].tmp_exists THEN 5
               ELSE IF uploads[i].tmp_created THEN uploads[i].attempts - 1 ELSE 0)
         /\ \A k \in 1..Len(uploads[i].delays) :
              uploads[i].delays[k] = BackoffWaits[k]
    /\ Len(uploads) <= SelectedFiles(widgets)
    /\ \A t \in Range(Tables) : \A c \in {"clear", "update"} :
         Cardinality({i \in 1..Len(writes) : writes[i] = [table |-> t, call |-> c]}) <= 1

\* C20 happens: all five deletion attempts of an upload fail
C20_Witness ==
    \E i \in 1..Len(uploads) :
        /\ uploads[i].delFails = 5
        /\ uploads[i].attempts = 5
        /\ uploads[i].delays = BackoffWaits

\* C21 (as claimed): in the revision "Copy (3)", a run in which
\* upload_to_drive returned None for a file still passes every selected file
\* to upload_to_drive, shows the total of every option and attempts all five
\* saves before it ends.
C21_Copy3UploadFailureContained ==
    (copy3.pc = "end" /\ \E i \in 1..Len(copy3.calls) : copy3.calls[i].link = 0) =>
        /\ \A o \in 1..copy3.n : \A f \in 1..Len(copy3.uploaded[o]) :
             \E i \in 1..Len(copy3.calls) :
                 copy3.calls[i].opt = o /\ copy3.calls[i].file = f
        /\ copy3.totalled = 1..copy3.n
        /\ [i \in 1..Len(copy3.saves) |-> copy3.saves[i].table] = Tables

\* C22 (as claimed): a run that the user starts by setting the number of
\* options to n, and in which no call raises, renders and scores exactly the
\* options Option A .. the n-th letter and leaves exactly their rows in the
\* options sheet.
C22_ExactlyNOptions ==
    (completed /\ env_faults = {} /\ interaction = "col_count") =>
        LET n == widgets.col_count["col_count"].v
            keys == [i \in 1..n |-> OptionKey(i - 1)]
        IN  /\ options = keys
            /\ {k[2] : k \in DOMAIN widgets.slider} = Range(keys)
            /\ [i \in 1..Len(sheets["options"].rows) |->
                    sheets["options"].rows[i].Key] = keys

\* C23 (as claimed): a run that the user starts without an edit (the page
\* opened or rerun), that uploads nothing and completes, with no failing call
\* but possibly the read of the options sheet, leaves in the options sheet,
\* for every option it found there, a row with the same label and image urls.
C23_IdleRunKeepsOptions ==
    (/\ completed
     /\ interaction \in {"open", "rerun"}
     /\ uploads = <<>>
     /\ env_faults \subseteq {<<"read", "options">>}) =>
        \A i \in 1..Len(prev_sheets["options"].rows) :
            \E j \in 1..Len(sheets["options"].rows) :
                sheets["options"].rows[j] = prev_sheets["options"].rows[i]

\* C24 (as claimed): a table whose save section raised in the last run, at
\* the open, the clear or the update call, holds what the run found in it.
C24_FailedWriteLeavesTable ==
    \A t \in Range(Tables) :
        (ReachedSaves /\ SaveRaised(t)) => sheets[t] = prev_sheets[t]

\* C25 (as claimed): within a session, the comment field of a (criterion,
\* option) takes a new text only in the run that the user started by typing
\* into a comment field, and then no more than one field does: no run puts
\* the comment of one option into the field of another.
CommentOf(W, k) == IF k \in DOMAIN W.comm THEN W.comm[k].v ELSE ""
NewComments ==
    {k \in DOMAIN widgets'.comm :
        CommentOf(widgets', k) # "" /\ CommentOf(widgets', k) # CommentOf(widgets, k)}
C25_CommentStaysWithOption ==
    [][interaction' # "open" =>
        /\ interaction' # "comm" => NewComments = {}
        /\ Cardinality(NewComments) <= 1]_vars

====
